---- MODULE Spec2Model ----
(***************************************************************************)
(* Model of src/src/create-enhanced-slice.ts (sliceCreator): the derived   *)
(* initial state, the enum table, the three lifecycle matcher handlers     *)
(* (pending / fulfilled / rejected), the setPageData reducer and the       *)
(* HYDRATE case.                                                           *)
(*                                                                         *)
(* JavaScript values are records tagged by "type" so that values of        *)
(* different JavaScript types can be compared:                             *)
(*   Undefined, Null, Num(n), Str(s), Bool(b), Arr(<<...>>), Obj and the   *)
(*   sub-state envelope {results, isLoading, hasMore, page, errors}.       *)
(* A result item {id: n} is modelled by the integer n.                     *)
(*                                                                         *)
(* A reducer that throws leaves the store's state as it was (the draft is  *)
(* discarded and dispatch rethrows); the model records it as the outcome   *)
(* "threw" of the operation.                                               *)
(***************************************************************************)
EXTENDS Integers, Sequences, FiniteSets, TLC

VARIABLES
    initialState,          \* the seed object given to sliceCreator: a sequence of [key, value]
    ignoreDefaultReducers, \* options.ignoreDefaultReducers (truthy or not)
    queryTypeEnums,        \* the frozen enum table built at construction (line 228)
    shouldUseHydrate,      \* options.shouldUseHydrate (line 199)
    state,                 \* the container's state: namespaced key -> value
    op                     \* the last operation dispatched: its input and the path it took

vars == <<initialState, ignoreDefaultReducers, shouldUseHydrate, queryTypeEnums, state, op>>

----------------------------------------------------------------------------
(* Bounds of the model *)

MaxId == 3          \* result items are {id: 1} .. {id: MaxId}
MaxLen == 2         \* results arrays of the state hold at most MaxLen items
MaxPayloadLen == 2  \* results arrays of a payload hold at most MaxPayloadLen items
MaxKeys == 2        \* the seeds tried at construction hold at most MaxKeys keys

----------------------------------------------------------------------------
(* JavaScript values *)

Undefined == [type |-> "undefined"]
Null == [type |-> "null"]
Num(n) == [type |-> "number", val |-> n]
Str(s) == [type |-> "string", str |-> s]
Bool(b) == [type |-> "boolean", val |-> b]
Arr(xs) == [type |-> "array", items |-> xs]
Obj == [type |-> "object"]   \* a plain object: truthy, not iterable, no length

\* typeof v
TypeOf(v) ==
    IF v.type \in {"array", "null", "envelope", "object"} THEN "object" ELSE v.type

\* the truthiness of v
Truthy(v) ==
    CASE v.type = "undefined" -> FALSE
      [] v.type = "null" -> FALSE
      [] v.type = "number" -> v.val # 0
      [] v.type = "string" -> v.str # ""
      [] v.type = "boolean" -> v.val
      [] OTHER -> TRUE

\* Array.isArray(v)
IsArray(v) == v.type = "array"

\* v?.length
LengthOf(v) ==
    IF v.type = "array" THEN Num(Len(v.items)) ELSE Undefined

\* an assignment v.field = x succeeds only on an object: on undefined it is a
\* TypeError, and so it is on a primitive in strict mode (the file is an ES module).
CanWrite(v) == v.type = "envelope"

----------------------------------------------------------------------------
(* ./utils (imported at line 8): modelled from the specification's sections *)
(* 4.1 and 4.6                                                             *)

\* Key Namespacer: an injective map from (container name, base key) to a key.
sliceString(name, key) == name \o "/" \o key

RECURSIVE HasDuplicate(_)
HasDuplicate(xs) ==
    IF Len(xs) < 2 THEN FALSE
    ELSE (\E i \in 2..Len(xs) : xs[i] = xs[1]) \/ HasDuplicate(Tail(xs))

\* isUnique(items): no two elements are duplicates.
isUnique(xs) == ~HasDuplicate(xs)

\* getUnique(items): one element per identity, in the order of first occurrence.
RECURSIVE getUnique(_)
getUnique(xs) ==
    IF xs = <<>> THEN <<>>
    ELSE LET init == getUnique(SubSeq(xs, 1, Len(xs) - 1))
             last == xs[Len(xs)]
         IN IF \E i \in 1..Len(init) : init[i] = last THEN init
            ELSE Append(init, last)

----------------------------------------------------------------------------
(* Construction *)

\* the container's name
SliceName == "users"

\* accumulator[key] = value
SetProp(acc, key, value) ==
    [k \in (DOMAIN acc) \cup {key} |-> IF k = key THEN value ELSE acc[k]]

EmptyObject == [k \in {} |-> Undefined]

\* a deriver without the primitive bypass: every value gets an envelope
createSliceStateNoBypass(accumulator, entry, name, ignore) ==
    SetProp(accumulator, sliceString(name, entry.key),
            [type |-> "envelope",
             results |-> entry.value,
             isLoading |-> FALSE,
             hasMore |-> TRUE,
             page |-> Num(0),
             errors |-> Null])

\* createInitialStateSlice.createSliceState
createSliceState(accumulator, entry, name, ignore) ==
    IF ignore \/ TypeOf(entry.value) \in {"number", "string", "boolean"}
    THEN SetProp(accumulator, sliceString(name, entry.key), entry.value)
    ELSE SetProp(accumulator, sliceString(name, entry.key),
                 [type |-> "envelope",
                  results |-> entry.value,
                  isLoading |-> FALSE,
                  hasMore |-> TRUE,
                  page |-> Num(0),
                  errors |-> Null])

RECURSIVE createInitialStateSlice(_, _, _)
createInitialStateSlice(seed, name, ignore) ==
    IF seed = <<>> THEN EmptyObject
    ELSE createSliceState(
             createInitialStateSlice(SubSeq(seed, 1, Len(seed) - 1), name, ignore),
             seed[Len(seed)], name, ignore)

\* getInitialStateSlice (line 203): the seed derived with the option
getInitialStateSlice(seed, ignore) ==
    createInitialStateSlice(seed, SliceName, ignore)

\* the initialState handed to createSlice (line 378): derived without the option
SliceInitialState(seed) ==
    createInitialStateSlice(seed, SliceName, FALSE)

\* createEnumObject.modifiedKeys: one record {[sliceString(name, key)]: key} per seed key
modifiedKeys(seed, name) ==
    [i \in 1..Len(seed) |-> [ns |-> sliceString(name, seed[i].key), base |-> seed[i].key]]

\* modifiedKeys.find((record) => record[key])?.[key]
FindModifiedKey(seed, name, key) ==
    LET recs == modifiedKeys(seed, name)
        hits == {i \in 1..Len(recs) : recs[i].ns = key /\ recs[i].base # ""}
    IN IF hits = {} THEN Undefined
       ELSE Str(recs[CHOOSE i \in hits : \A j \in hits : i <= j].base)

\* the property name a value is coerced to when it indexes an object
PropName(v) == IF v.type = "string" THEN v.str ELSE "undefined"

\* a builder that forgets the reverse entry accumulator[modifiedKey] = key
processKeysForwardOnly(accumulator, key, seed, name) ==
    SetProp(accumulator, key, FindModifiedKey(seed, name, key))

\* createEnumObject.processKeys
processKeys(accumulator, key, seed, name) ==
    LET modifiedKey == FindModifiedKey(seed, name, key)
    IN SetProp(SetProp(accumulator, key, modifiedKey), PropName(modifiedKey), Str(key))

RECURSIVE ReduceProcessKeys(_, _, _)
ReduceProcessKeys(keys, seed, name) ==
    IF keys = <<>> THEN EmptyObject
    ELSE processKeys(ReduceProcessKeys(SubSeq(keys, 1, Len(keys) - 1), seed, name),
                     keys[Len(keys)], seed, name)

\* createEnumObject(getInitialStateSlice, initialState, name): the keys of the
\* derived state are the namespaced keys, in the order of the seed's keys
createEnumObject(seed, name) ==
    ReduceProcessKeys([i \in 1..Len(seed) |-> sliceString(name, seed[i].key)], seed, name)

\* Object.entries(enumObject).find(([_, v]) => v === value)?.[0]
getKeyFromEnumValue(enumObject, value) ==
    LET hits == {k \in DOMAIN enumObject : enumObject[k] = value}
    IN IF hits = {} THEN Undefined ELSE Str(CHOOSE k \in hits : TRUE)

\* state[key]
Get(st, key) ==
    IF PropName(key) \in DOMAIN st THEN st[PropName(key)] ELSE Undefined

\* a write that lands on every sub-state of the container
PutEverySubState(st, key, sub) ==
    [k \in DOMAIN st |-> IF st[k].type = "envelope" THEN sub ELSE st[k]]

\* state with state[key] replaced by the sub-state sub
Put(st, key, sub) == [st EXCEPT ![PropName(key)] = sub]

\* key && getKeyFromEnumValue(queryTypeEnums, key)
Resolves(enum, key) ==
    Truthy(key) /\ Truthy(getKeyFromEnumValue(enum, key))

----------------------------------------------------------------------------
(* bundleCase (lines 245-260) *)

\* a test that forgets the absent page: data?.page === 1 alone
cannnotConcatPageOneOnly(data) == data.page = Num(1)

\* the page that bundleCase and the fulfilled handler single out: page === 1
FirstPage == 1

\* const cannnotConcat = data?.page === 1 || !data.page
cannnotConcat(data) == data.page = Num(FirstPage) \/ ~Truthy(data.page)

\* const canConcatForPagingToken = typeof state.page === 'string' && data.page === state.page
canConcatForPagingToken(sub, data) ==
    TypeOf(sub.page) = "string" /\ data.page = sub.page

\* the branch of the conditional at lines 251-257
BundlePath(sub, data) ==
    IF cannnotConcat(data) \/ ~IsArray(data.results) THEN "replaced"
    ELSE IF canConcatForPagingToken(sub, data) THEN "tokenMatch"
    ELSE "appended"

\* the spread [...state.results] throws unless state.results is iterable
BundleThrows(sub, data) ==
    BundlePath(sub, data) # "replaced" /\ ~IsArray(sub.results)

\* state.results = cannnotConcat || !isArray ? data?.results : [...state.results, ...]
BundleResults(sub, data) ==
    IF cannnotConcat(data) \/ ~IsArray(data.results)
    THEN data.results
    ELSE Arr(sub.results.items \o
             (IF canConcatForPagingToken(sub, data) THEN <<>> ELSE data.results.items))

\* state.hasMore = isArray ? data.results.length > 0 : true
BundleHasMore(data) ==
    IF IsArray(data.results) THEN Len(data.results.items) > 0 ELSE TRUE

bundleCase(sub, data) ==
    [sub EXCEPT !.results = BundleResults(sub, data), !.hasMore = BundleHasMore(data)]

----------------------------------------------------------------------------
(* setPageData (lines 386-420): payload = {_queryType, data}; the key handed *)
(* to the model is consolidateQueryType = type || data._queryType           *)

SetPageDataThrows(st, key, data) ==
    LET newState == Get(st, key)
    IN \/ ~CanWrite(newState)   \* undefined: state.page at line 249; primitive: the writes
       \/ BundleThrows([newState EXCEPT !.page =
                           IF Truthy(data.page) THEN data.page ELSE newState.page], data)

SetPageDataSub(newState, data) ==
    LET s1 == IF Truthy(data.errors) THEN [newState EXCEPT !.errors = data.errors]
              ELSE newState
        s2 == IF Truthy(data.page) THEN [s1 EXCEPT !.page = data.page] ELSE s1
        s3 == bundleCase(s2, data)
    IN [s3 EXCEPT !.isLoading = Truthy(data.isLoading)]

SetPageDataPath(newState, data) ==
    BundlePath([newState EXCEPT !.page =
                   IF Truthy(data.page) THEN data.page ELSE newState.page], data)

\* a reducer without the early return of lines 395-400
setPageDataUnguarded(st, ignore, key, data) ==
    IF SetPageDataThrows(st, key, data) THEN [state |-> st, outcome |-> "threw"]
    ELSE [state |-> Put(st, key, SetPageDataSub(Get(st, key), data)),
          outcome |-> SetPageDataPath(Get(st, key), data)]

\* the reducer: the next state and the path taken
setPageData(st, ignore, key, data) ==
    IF ignore THEN [state |-> st, outcome |-> "ignored"]
    ELSE IF SetPageDataThrows(st, key, data) THEN [state |-> st, outcome |-> "threw"]
    ELSE [state |-> Put(st, key, SetPageDataSub(Get(st, key), data)),
          outcome |-> SetPageDataPath(Get(st, key), data)]

----------------------------------------------------------------------------
(* The lifecycle matchers (lines 293-374). arg is action.meta.arg:           *)
(* hasOriginalArgs tells whether originalArgs is there, key is               *)
(* originalArgs._queryType                                                   *)

\* a handler that, given a key it cannot resolve, marks every sub-state as loading
PendingHandlerMarksAll(st, enum, arg) ==
    IF ~arg.hasOriginalArgs THEN [state |-> st, outcome |-> "threw"]
    ELSE LET key == arg.key
             newState == Get(st, key)
         IN IF Resolves(enum, key)
            THEN IF CanWrite(newState)
                 THEN [state |-> Put(st, key, [newState EXCEPT !.isLoading = TRUE]),
                       outcome |-> "loading"]
                 ELSE [state |-> st, outcome |-> "threw"]
            ELSE [state |-> [k \in DOMAIN st |->
                                IF st[k].type = "envelope"
                                THEN [st[k] EXCEPT !.isLoading = TRUE]
                                ELSE st[k]],
                  outcome |-> "invalidKey"]

\* a handler that rebuilds the entry, state[key] = {...state[key], isLoading: true},
\* instead of writing into it
PendingHandlerRebuilds(st, enum, arg) ==
    IF ~arg.hasOriginalArgs THEN [state |-> st, outcome |-> "threw"]
    ELSE LET key == arg.key
             newState == Get(st, key)
         IN IF Resolves(enum, key)
            THEN [state |-> SetProp(st, PropName(key),
                                    IF newState.type = "envelope"
                                    THEN [newState EXCEPT !.isLoading = TRUE]
                                    ELSE Obj),
                  outcome |-> "loading"]
            ELSE [state |-> st, outcome |-> "invalidKey"]

\* constructPendingCases
PendingHandler(st, enum, arg) ==
    IF ~arg.hasOriginalArgs THEN [state |-> st, outcome |-> "threw"]
    ELSE LET key == arg.key
             newState == Get(st, key)
         IN IF Resolves(enum, key)
            THEN IF CanWrite(newState)
                 THEN [state |-> Put(st, key, [newState EXCEPT !.isLoading = TRUE]),
                       outcome |-> "loading"]
                 ELSE [state |-> st, outcome |-> "threw"]
            ELSE [state |-> st, outcome |-> "invalidKey"]

\* constructFailedCases
RejectedSub(newState, payload) ==
    LET s1 == IF newState.isLoading THEN [newState EXCEPT !.isLoading = FALSE]
              ELSE newState
    IN IF Truthy(s1.errors) THEN [s1 EXCEPT !.errors = payload] ELSE s1

FailedHandler(st, enum, arg, payload) ==
    IF ~arg.hasOriginalArgs THEN [state |-> st, outcome |-> "threw"]
    ELSE LET key == arg.key
             newState == Get(st, key)
         IN IF Resolves(enum, key)
            THEN IF newState.type = "envelope"
                 THEN [state |-> Put(st, key, RejectedSub(newState, payload)),
                       outcome |-> "rejected"]
                 ELSE [state |-> st, outcome |-> "rejected"]  \* newState?. reads nothing
            ELSE [state |-> st, outcome |-> "invalidKey"]

\* a gate that de-duplicates the concatenation before testing it
itemIsUniqueDeduped(newState, results) ==
    /\ isUnique(getUnique(newState.results.items \o results.items))
    /\ isUnique(newState.results.items)
    /\ ~newState.hasMore

\* a gate that forgets hasMore
itemIsUniqueNoHasMore(newState, results) ==
    /\ isUnique(newState.results.items \o results.items)
    /\ isUnique(newState.results.items)

\* constructSuccessCases: const itemIsUnique = ... (lines 346-352)
itemIsUnique(newState, results) ==
    /\ isUnique(newState.results.items \o results.items)
    /\ isUnique(newState.results.items)
    /\ ~newState.hasMore

\* the spreads of lines 347-350 throw unless the payload's results is iterable
SuccessThrows(newState, results) ==
    /\ Truthy(results) \/ Truthy(LengthOf(results))
    /\ IsArray(newState.results) /\ Truthy(LengthOf(newState.results))
    /\ ~IsArray(results)

\* the page-equals-1 test written as a second if rather than an else-if
SuccessPathFallsThrough(newState, results) ==
    IF Truthy(results) \/ Truthy(LengthOf(results))
    THEN IF IsArray(newState.results) /\ Truthy(LengthOf(newState.results))
            /\ itemIsUnique(newState, results)
         THEN "merged"
         ELSE IF ~Truthy(LengthOf(newState.results)) \/ newState.page = Num(FirstPage)
              THEN "replaced"
              ELSE "gateFailed"
    ELSE "noResults"

\* the branch of lines 339-363 taken for a sub-state and the payload's results
SuccessPath(newState, results) ==
    IF Truthy(results) \/ Truthy(LengthOf(results))
    THEN IF IsArray(newState.results) /\ Truthy(LengthOf(newState.results))
         THEN IF itemIsUnique(newState, results) THEN "merged" ELSE "gateFailed"
         ELSE IF ~Truthy(LengthOf(newState.results)) \/ newState.page = Num(FirstPage)
              THEN "replaced"
              ELSE "kept"
    ELSE "noResults"

\* a handler that recomputes hasMore when it replaces results, as bundleCase does
SuccessSubRecomputesHasMore(newState, results) ==
    LET path == SuccessPath(newState, results)
        s1 == CASE path = "merged" ->
                     [newState EXCEPT !.results =
                         Arr(getUnique(newState.results.items \o results.items))]
                [] path = "replaced" ->
                     [newState EXCEPT !.results = results,
                                      !.hasMore = BundleHasMore([results |-> results])]
                [] OTHER -> newState
    IN [s1 EXCEPT !.isLoading = FALSE]

SuccessSub(newState, results) ==
    LET path == SuccessPath(newState, results)
        s1 == CASE path = "merged" ->
                     [newState EXCEPT !.results =
                         Arr(getUnique(newState.results.items \o results.items))]
                [] path = "replaced" -> [newState EXCEPT !.results = results]
                [] OTHER -> newState
    IN [s1 EXCEPT !.isLoading = FALSE]

SuccessHandler(st, enum, arg, results) ==
    IF ~arg.hasOriginalArgs THEN [state |-> st, outcome |-> "threw"]
    ELSE LET key == arg.key
             newState == Get(st, key)
         IN IF Resolves(enum, key)
            THEN IF CanWrite(newState) /\ ~SuccessThrows(newState, results)
                 THEN [state |-> Put(st, key, SuccessSub(newState, results)),
                       outcome |-> SuccessPath(newState, results)]
                 ELSE [state |-> st, outcome |-> "threw"]
            ELSE [state |-> st, outcome |-> "invalidKey"]

----------------------------------------------------------------------------
(* Inputs *)

Items == 1..MaxId

\* a page of a response: a run of at most n consecutive records
Pages(n) ==
    {[i \in 1..m |-> first + i - 1] :
        first \in Items, m \in 0..n} \cap UNION {[1..m -> Items] : m \in 0..n}

Tokens == {"abc"}

PayloadResults == {Undefined, Obj} \cup {Arr(xs) : xs \in Pages(MaxPayloadLen)}

\* the numeric pages tried: the first page and a later one
PageNumbers == {FirstPage, FirstPage + 1}

PayloadPages == {Undefined} \cup {Num(p) : p \in PageNumbers} \cup {Str(t) : t \in Tokens}

\* the payloads tried with a key that addresses no sub-state
ProbeResults == {Arr(<<1>>)}

ProbeData ==
    [results : ProbeResults, page : {Num(FirstPage + 1)},
     errors : {Undefined}, isLoading : {Undefined}]

\* the data of a setPageData payload: every results and page, and every
\* errors and isLoading (the reducer handles the two pairs independently)
Data ==
    [results : PayloadResults, page : PayloadPages,
     errors : {Undefined}, isLoading : {Undefined}]
    \cup [results : {Arr(<<>>)}, page : {Undefined},
          errors : {Undefined, Str("E1")}, isLoading : {Undefined, Bool(TRUE)}]

\* the error payload of a rejected event
ErrorPayloads == {Str("E2")}

\* the seed of Scenario A: {users: [], count: 0}
SeedA == <<[key |-> "users", value |-> Arr(<<>>)], [key |-> "count", value |-> Num(0)]>>

\* the seeds tried at construction: at most MaxKeys fields, named by valid
\* identifiers, holding collections, null or primitives
SeedKeys == {"users", "posts", "count"}

SeedValues == {Arr(<<>>), Arr(<<1>>), Null, Num(0), Str("a"), Bool(FALSE)}

Seeds ==
    {seed \in UNION {[1..n -> [key : SeedKeys, value : SeedValues]] : n \in 0..MaxKeys} :
        \A i, j \in 1..Len(seed) : seed[i].key = seed[j].key => i = j}

BaseKeys(seed) == {seed[i].key : i \in 1..Len(seed)}

\* the base keys of the fields that get a sub-state envelope
PaginatedKeys(seed) ==
    {seed[i].key : i \in {j \in 1..Len(seed) :
        TypeOf(seed[j].value) \notin {"number", "string", "boolean"}}}

\* the values of _queryType tried: none, an unknown name, the base keys of the
\* paginated fields and every namespaced key
QueryTypes(seed) ==
    {Undefined, Str("bogus")}
        \cup {Str(k) : k \in PaginatedKeys(seed)}
        \cup {Str(sliceString(SliceName, k)) : k \in BaseKeys(seed)}

\* action.meta.arg of a lifecycle event
Args(seed) ==
    {[hasOriginalArgs |-> FALSE, key |-> Undefined]}
        \cup {[hasOriginalArgs |-> TRUE, key |-> k] : k \in QueryTypes(seed)}

IsSubState(st, key) == Get(st, key).type = "envelope"

\* setPageData appends only while the results stay within the bound
Bounded(st) ==
    \A k \in DOMAIN st :
        st[k].type = "envelope" /\ IsArray(st[k].results)
            => Len(st[k].results.items) <= MaxLen

----------------------------------------------------------------------------
(* The state machine *)

Init ==
    /\ initialState = SeedA
    /\ ignoreDefaultReducers = FALSE
    /\ shouldUseHydrate = TRUE
    /\ queryTypeEnums = createEnumObject(initialState, SliceName)
    /\ state = SliceInitialState(initialState)
    /\ op = [kind |-> "init", hasOriginalArgs |-> TRUE, key |-> Undefined,
             payload |-> Undefined, outcome |-> "init"]

\* the matchers are registered only when the default reducers are not ignored
\* (lines 437-446); every endpoint is taken to be listed under cases.all
Dispatch(kind, arg, payload, r) ==
    /\ state' = r.state
    /\ op' = [kind |-> kind, hasOriginalArgs |-> arg.hasOriginalArgs, key |-> arg.key,
              payload |-> payload, outcome |-> r.outcome]
    /\ UNCHANGED <<initialState, ignoreDefaultReducers, shouldUseHydrate, queryTypeEnums>>

Unregistered == [state |-> state, outcome |-> "unregistered"]

Pending ==
    \E arg \in Args(initialState) :
        LET r == IF ignoreDefaultReducers THEN Unregistered
                 ELSE PendingHandler(state, queryTypeEnums, arg)
        IN Dispatch("pending", arg, Undefined, r)

Rejected ==
    \E arg \in Args(initialState), e \in ErrorPayloads :
        LET r == IF ignoreDefaultReducers THEN Unregistered
                 ELSE FailedHandler(state, queryTypeEnums, arg, e)
        IN Dispatch("rejected", arg, e, r)

Fulfilled ==
    \E arg \in Args(initialState) :
        \E results \in (IF IsSubState(state, arg.key) THEN PayloadResults ELSE ProbeResults) :
            LET r == IF ignoreDefaultReducers THEN Unregistered
                     ELSE SuccessHandler(state, queryTypeEnums, arg, results)
            IN Dispatch("fulfilled", arg, [results |-> results], r)

SetPageData ==
    \E key \in QueryTypes(initialState) :
        \E data \in (IF IsSubState(state, key) THEN Data ELSE ProbeData) :
            LET r == setPageData(state, ignoreDefaultReducers, key, data)
            IN /\ r.outcome = "appended" => Bounded(r.state)
               /\ Dispatch("setPageData", [hasOriginalArgs |-> TRUE, key |-> key], data, r)

Next == Pending \/ Fulfilled \/ Rejected \/ SetPageData

Spec == Init /\ [][Next]_vars

\* the container driven by lifecycle events alone: no setPageData, no hydrate
NextLifecycle == Pending \/ Fulfilled \/ Rejected

\* the seeds of one field, and Scenario A's
LifecycleSeeds == {seed \in Seeds : Len(seed) = 1} \cup {SeedA}

InitLifecycle ==
    /\ initialState \in LifecycleSeeds
    /\ ignoreDefaultReducers = FALSE
    /\ shouldUseHydrate = TRUE
    /\ queryTypeEnums = createEnumObject(initialState, SliceName)
    /\ state = SliceInitialState(initialState)
    /\ op = [kind |-> "init", hasOriginalArgs |-> TRUE, key |-> Undefined,
             payload |-> Undefined, outcome |-> "init"]

SpecLifecycle == InitLifecycle /\ [][NextLifecycle]_vars

----------------------------------------------------------------------------
(* A container with two paginated sub-states and a primitive field *)

SeedTwo ==
    <<[key |-> "users", value |-> Arr(<<>>)],
      [key |-> "posts", value |-> Arr(<<>>)],
      [key |-> "count", value |-> Num(0)]>>

InitTwo ==
    /\ initialState = SeedTwo
    /\ ignoreDefaultReducers = FALSE
    /\ shouldUseHydrate = TRUE
    /\ queryTypeEnums = createEnumObject(initialState, SliceName)
    /\ state = SliceInitialState(initialState)
    /\ op = [kind |-> "init", hasOriginalArgs |-> TRUE, key |-> Undefined,
             payload |-> Undefined, outcome |-> "init"]

\* the payloads tried on this container: no results, no record or the record
\* {id: 1}, with no page or the page after the first
TwoResults == {Undefined, Arr(<<>>), Arr(<<1>>)}

TwoInputs(o) ==
    CASE o.kind = "fulfilled" -> o.payload.results \in TwoResults
      [] o.kind = "setPageData" ->
             /\ o.payload.results \in TwoResults
             /\ o.payload.page \in {Undefined, Num(FirstPage + 1)}
             /\ o.payload.errors = Undefined
             /\ o.payload.isLoading = Undefined
      [] OTHER -> TRUE

NextTwo ==
    \/ Pending /\ TwoInputs(op')
    \/ Fulfilled /\ TwoInputs(op')
    \/ Rejected /\ TwoInputs(op')
    \/ SetPageData /\ TwoInputs(op')

SpecTwo == InitTwo /\ [][NextTwo]_vars

----------------------------------------------------------------------------
(* The HYDRATE case (lines 422-433). snapshot is action.payload[name]: an    *)
(* object of entries, or undefined when the payload has no entry for the     *)
(* container                                                                 *)

Snapshot(entries) == [type |-> "snapshot", entries |-> entries]

\* a case that returns the snapshot alone: return action.payload[name]
HydrateReplace(st, snapshot) ==
    IF snapshot = Undefined THEN st ELSE snapshot.entries

\* return {...state, ...action.payload[name]}
HydrateMerge(st, snapshot) ==
    IF snapshot = Undefined THEN st
    ELSE [k \in (DOMAIN st) \cup (DOMAIN snapshot.entries) |->
             IF k \in DOMAIN snapshot.entries THEN snapshot.entries[k] ELSE st[k]]

\* a sub-state as a server would render it
HydratedSub ==
    [type |-> "envelope", results |-> Arr(<<1, 2>>), isLoading |-> FALSE,
     hasMore |-> FALSE, page |-> Num(FirstPage + 1), errors |-> Null]

\* the snapshots tried: none, an empty one, one entry, both entries
Snapshots ==
    {Undefined,
     Snapshot(EmptyObject),
     Snapshot(SetProp(EmptyObject, "users/users", HydratedSub)),
     Snapshot(SetProp(EmptyObject, "users/count", Num(1))),
     Snapshot(SetProp(SetProp(EmptyObject, "users/users", HydratedSub),
                      "users/count", Num(1)))}

InitHydrate ==
    /\ initialState = SeedA
    /\ ignoreDefaultReducers = FALSE
    /\ shouldUseHydrate \in BOOLEAN
    /\ queryTypeEnums = createEnumObject(initialState, SliceName)
    /\ state = SliceInitialState(initialState)
    /\ op = [kind |-> "init", hasOriginalArgs |-> TRUE, key |-> Undefined,
             payload |-> Undefined, outcome |-> "init"]

\* an action of type HYDRATE: the case is added only when shouldUseHydrate
Hydrate ==
    \E snapshot \in Snapshots :
        LET r == IF shouldUseHydrate
                 THEN [state |-> HydrateMerge(state, snapshot), outcome |-> "hydrated"]
                 ELSE Unregistered
        IN Dispatch("hydrate", [hasOriginalArgs |-> TRUE, key |-> Undefined], snapshot, r)

\* lifecycle events and hydrate actions
NextHydrate == NextLifecycle \/ Hydrate

SpecHydrate == InitHydrate /\ [][NextHydrate]_vars

----------------------------------------------------------------------------
(* Construction as a step: sliceCreator(name, initialState, sliceOptions,    *)
(* options) applied to every seed of Seeds, with and without the option      *)

NoOp == [kind |-> "none", hasOriginalArgs |-> TRUE, key |-> Undefined,
         payload |-> Undefined, outcome |-> "none"]

InitCreate ==
    /\ initialState \in Seeds
    /\ ignoreDefaultReducers \in BOOLEAN
    /\ shouldUseHydrate = TRUE
    /\ queryTypeEnums = EmptyObject
    /\ state = EmptyObject
    /\ op = NoOp

\* the enum table of line 228 and the initial state of the slice of line 378
SliceCreator ==
    /\ op = NoOp
    /\ queryTypeEnums' = createEnumObject(initialState, SliceName)
    /\ state' = SliceInitialState(initialState)
    /\ op' = [kind |-> "sliceCreator", hasOriginalArgs |-> TRUE, key |-> Undefined,
              payload |-> Undefined, outcome |-> "init"]
    /\ UNCHANGED <<initialState, ignoreDefaultReducers, shouldUseHydrate>>

NextCreate == SliceCreator

SpecCreate == InitCreate /\ [][NextCreate]_vars

----------------------------------------------------------------------------
(* The container built with ignoreDefaultReducers set *)

InitIgnore ==
    /\ initialState \in Seeds
    /\ ignoreDefaultReducers = TRUE
    /\ shouldUseHydrate = TRUE
    /\ queryTypeEnums = createEnumObject(initialState, SliceName)
    /\ state = SliceInitialState(initialState)
    /\ op = [kind |-> "init", hasOriginalArgs |-> TRUE, key |-> Undefined,
             payload |-> Undefined, outcome |-> "init"]

SpecIgnore == InitIgnore /\ [][Next]_vars

----------------------------------------------------------------------------
(* Properties *)

Lifecycle == {"pending", "fulfilled", "rejected"}

\* the enum table has an entry whose value is key
InEnum(key) == \E k \in DOMAIN queryTypeEnums : queryTypeEnums[k] = key

\* the sub-state the last operation addressed
Target == Get(state, op.key)

\* C1: a lifecycle event whose _queryType is absent or is no value of the enum
\* table leaves the whole state as it was.
C1_InvalidKeyLeavesState ==
    [][(op'.kind \in Lifecycle /\ (~op'.hasOriginalArgs \/ ~InEnum(op'.key)))
          => state' = state]_vars

C1_Witness ==
    /\ op.kind = "fulfilled"
    /\ op.key = Str("bogus")
    /\ op.outcome = "invalidKey"
    /\ state # SliceInitialState(initialState)

\* C2: no lifecycle handler and no setPageData call ends in an error: no
\* operation throws.
C2_NoMutationPathThrows == op.outcome # "threw"

\* Scenario B: the sub-state before the event and the event
ScenarioB(sub, o) ==
    /\ sub.type = "envelope"
    /\ sub.results = Arr(<<1, 2>>) /\ sub.page = Num(2) /\ ~sub.hasMore
    /\ o.kind = "fulfilled" /\ o.hasOriginalArgs /\ InEnum(o.key)
    /\ o.payload = [results |-> Arr(<<2, 3>>)]

\* C3 as claimed: in Scenario B the event passes the merge gate, results
\* becomes [1, 2, 3] and isLoading is false.
C3_ScenarioBMerges ==
    [][ScenarioB(Get(state, op'.key), op')
          => /\ op'.outcome = "merged"
             /\ Get(state', op'.key).results = Arr(<<1, 2, 3>>)
             /\ ~Get(state', op'.key).isLoading]_vars

\* C3 amended: in Scenario B the event fails the merge gate, because the
\* concatenation [1, 2, 2, 3] holds id 2 twice; results stays [1, 2] and
\* isLoading is false.
C3_ScenarioBKeepsResults ==
    [][ScenarioB(Get(state, op'.key), op')
          => /\ op'.outcome = "gateFailed"
             /\ Get(state', op'.key).results = Arr(<<1, 2>>)
             /\ ~Get(state', op'.key).isLoading]_vars

C3_Witness ==
    /\ ScenarioB(Target, op)
    /\ op.outcome = "gateFailed"
    /\ ~Target.isLoading

\* Scenario C: a sub-state with a non-empty results array, page 1 and hasMore
\* true, and a fulfilled event with a resolvable key and non-empty results
ScenarioC(sub, o) ==
    /\ sub.type = "envelope"
    /\ IsArray(sub.results) /\ Len(sub.results.items) > 0
    /\ sub.page = Num(1) /\ sub.hasMore
    /\ o.kind = "fulfilled" /\ o.hasOriginalArgs /\ InEnum(o.key)
    /\ IsArray(o.payload.results) /\ Len(o.payload.results.items) > 0

\* C4 as claimed: in Scenario C results becomes the payload's results.
C4_ScenarioCReplaces ==
    [][ScenarioC(Get(state, op'.key), op')
          => Get(state', op'.key).results = op'.payload.results]_vars

\* C4 amended: in Scenario C the event fails the merge gate and results is left
\* as it was: the page-equals-1 test is the else of the non-empty-array test and
\* is not evaluated; isLoading is false afterwards.
C4_ScenarioCKeepsResults ==
    [][ScenarioC(Get(state, op'.key), op')
          => /\ op'.outcome = "gateFailed"
             /\ Get(state', op'.key).results = Get(state, op'.key).results
             /\ ~Get(state', op'.key).isLoading]_vars

C4_Witness ==
    /\ ScenarioC(Target, op)
    /\ op.outcome = "gateFailed"
    /\ Target.results = Arr(<<1>>)
    /\ op.payload.results = Arr(<<2>>)

\* a setPageData call on a paginated sub-state
IsSetPageData(st, o) ==
    o.kind = "setPageData" /\ Get(st, o.key).type = "envelope"

\* C5: a setPageData call whose page is present, is not 1 and differs from the
\* sub-state's page, and whose results is an array, appends the payload's
\* results to the results held before.
C5_AppendsPayload ==
    [][(/\ IsSetPageData(state, op')
        /\ op'.payload.page \notin {Undefined, Num(1)}
        /\ op'.payload.page # Get(state, op'.key).page
        /\ IsArray(op'.payload.results)
        /\ IsArray(Get(state, op'.key).results))
          => Get(state', op'.key).results =
                 Arr(Get(state, op'.key).results.items \o op'.payload.results.items)]_vars

\* C6: a setPageData call whose page is the string token the sub-state holds,
\* with an array of results, leaves results as it was and sets hasMore to
\* whether that array is non-empty.
C6_TokenMatchKeepsResults ==
    [][(/\ IsSetPageData(state, op')
        /\ TypeOf(Get(state, op'.key).page) = "string"
        /\ op'.payload.page = Get(state, op'.key).page
        /\ IsArray(op'.payload.results))
          => /\ Get(state', op'.key).results = Get(state, op'.key).results
             /\ Get(state', op'.key).hasMore = (Len(op'.payload.results.items) > 0)]_vars

\* C7: a setPageData call whose page is absent or 1, or whose results is not an
\* array, leaves results equal to the payload's results.
C7_ReplaceTrigger ==
    (/\ IsSetPageData(state, op)
     /\ \/ op.payload.page \in {Undefined, Num(1)}
        \/ ~IsArray(op.payload.results))
        => Target.results = op.payload.results

C7_Witness ==
    /\ IsSetPageData(state, op)
    /\ op.payload.page = Undefined
    /\ op.payload.results = Arr(<<3>>)
    /\ op.outcome = "replaced"
    /\ Target.page = Num(2)

\* C8: after a rejected event with a resolvable key addressed to a paginated
\* sub-state, isLoading is false and errors is the event's error payload.
C8_RejectedSetsErrors ==
    (/\ op.kind = "rejected" /\ op.hasOriginalArgs /\ InEnum(op.key)
     /\ Target.type = "envelope")
        => ~Target.isLoading /\ Target.errors = op.payload

\* the namespaced key of the field a resolvable _queryType names
FieldKey(key) ==
    IF key.str \in DOMAIN state THEN key.str ELSE queryTypeEnums[key.str].str

\* C9: a pending event whose _queryType the enum table resolves, base key or
\* namespaced key, sets isLoading on the sub-state of that field and changes
\* nothing else.
C9_PendingSetsLoading ==
    [][(/\ op'.kind = "pending" /\ op'.hasOriginalArgs /\ InEnum(op'.key)
        /\ state[FieldKey(op'.key)].type = "envelope")
          => state' = [state EXCEPT ![FieldKey(op'.key)].isLoading = TRUE]]_vars

\* the branch of the fulfilled handler with a non-empty current results array
\* and a non-empty payload
MergeBranch(sub, o) ==
    /\ sub.type = "envelope"
    /\ IsArray(sub.results) /\ Len(sub.results.items) > 0
    /\ o.kind = "fulfilled" /\ o.hasOriginalArgs /\ InEnum(o.key)
    /\ IsArray(o.payload.results) /\ Len(o.payload.results.items) > 0

\* C10: in that branch results becomes the de-duplicated union of the current
\* and the incoming results exactly when their concatenation is duplicate-free,
\* the current results are duplicate-free and hasMore is false; otherwise
\* results is left as it was.
C10_MergeGate ==
    [][MergeBranch(Get(state, op'.key), op')
          => LET sub == Get(state, op'.key)
                 both == sub.results.items \o op'.payload.results.items
             IN Get(state', op'.key).results =
                    IF isUnique(both) /\ isUnique(sub.results.items) /\ ~sub.hasMore
                    THEN Arr(getUnique(both))
                    ELSE sub.results]_vars

C10_Witness ==
    /\ op.kind = "fulfilled"
    /\ op.outcome = "merged"
    /\ op.payload.results = Arr(<<3>>)
    /\ Target.results = Arr(<<1, 2, 3>>)

\* C11: after a fulfilled event whose key resolves and addresses a paginated
\* sub-state, isLoading of that sub-state is false, whatever the payload.
C11_FulfilledClearsLoading ==
    (/\ op.kind = "fulfilled" /\ op.hasOriginalArgs /\ InEnum(op.key)
     /\ Target.type = "envelope")
        => ~Target.isLoading

\* C12: in a container built with ignoreDefaultReducers set, no setPageData
\* call and no pending, fulfilled or rejected event changes the state.
C12_IgnoredLeavesState ==
    [][(ignoreDefaultReducers /\ op'.kind \in Lifecycle \cup {"setPageData"})
          => state' = state]_vars

C12_Witness ==
    /\ ignoreDefaultReducers
    /\ op.kind = "setPageData"
    /\ op.outcome = "ignored"
    /\ Target.type = "envelope"
    /\ op.payload.results = Arr(<<1, 2>>)
    /\ op.payload.page = Num(2)

\* the namespaced key of seed field i
NamespacedKey(i) == sliceString(SliceName, initialState[i].key)

\* C13: built with ignoreDefaultReducers true, the container's initial state
\* holds every seed value as it is under its namespaced key, with no envelope.
C13_IgnoredSeedVerbatim ==
    (op.kind = "sliceCreator" /\ ignoreDefaultReducers)
        => \A i \in 1..Len(initialState) :
               /\ NamespacedKey(i) \in DOMAIN state
               /\ state[NamespacedKey(i)] = initialState[i].value

\* the envelope a freshly derived sub-state is
FreshEnvelope(v) ==
    [type |-> "envelope", results |-> v, isLoading |-> FALSE, hasMore |-> TRUE,
     page |-> Num(0), errors |-> Null]

C15_EnumRoundTrip ==
    op.kind = "sliceCreator"
        => /\ \A i \in 1..Len(initialState) :
                  LET k == initialState[i].key
                  IN /\ {k, NamespacedKey(i)} \subseteq DOMAIN queryTypeEnums
                     /\ queryTypeEnums[k] = Str(NamespacedKey(i))
                     /\ queryTypeEnums[NamespacedKey(i)] = Str(k)
                     /\ queryTypeEnums[queryTypeEnums[k].str] = Str(k)
           /\ Cardinality(DOMAIN queryTypeEnums) = 2 * Cardinality(BaseKeys(initialState))

C15_Witness ==
    /\ op.kind = "sliceCreator"
    /\ Len(initialState) = 2
    /\ Cardinality(DOMAIN queryTypeEnums) = 4
    /\ {"posts", "users/posts"} \subseteq DOMAIN queryTypeEnums
    /\ queryTypeEnums["posts"] = Str("users/posts")
    /\ queryTypeEnums["users/posts"] = Str("posts")

\* C16: after a setPageData call on a paginated sub-state hasMore is true if
\* the payload's results is not an array, and otherwise tells whether that
\* array is non-empty.
C16_HasMoreRecomputed ==
    IsSetPageData(state, op)
        => Target.hasMore =
               IF IsArray(op.payload.results)
               THEN Len(op.payload.results.items) > 0
               ELSE TRUE

\* C17: every field whose seed value is a number, a string or a boolean holds
\* its seed value, whatever events and setPageData calls were dispatched.
C17_PrimitivesUntouched ==
    \A i \in 1..Len(initialState) :
        initialState[i].value.type \in {"number", "string", "boolean"}
            => /\ NamespacedKey(i) \in DOMAIN state
               /\ state[NamespacedKey(i)] = initialState[i].value

\* an operation addressed to the primitive field's own namespaced key, after
\* the paginated sub-state was written
C17_Witness ==
    /\ op.kind \in {"pending", "setPageData"}
    /\ op.key = Str("users/count")
    /\ op.outcome = "threw"
    /\ state["users/count"] = Num(0)
    /\ state["users/users"].results = Arr(<<1, 2>>)

\* the keys of the snapshot of a hydrate action
SnapshotKeys(snapshot) ==
    IF snapshot = Undefined THEN {} ELSE DOMAIN snapshot.entries

\* C18: with shouldUseHydrate a hydrate action gives every key of
\* payload[name] the payload's value and leaves every other key as it was;
\* without it the action leaves the state as it was.
C18_HydrateMerges ==
    [][op'.kind = "hydrate"
          => IF shouldUseHydrate
             THEN /\ DOMAIN state' = (DOMAIN state) \cup SnapshotKeys(op'.payload)
                  /\ \A k \in SnapshotKeys(op'.payload) :
                         state'[k] = op'.payload.entries[k]
                  /\ \A k \in (DOMAIN state) \ SnapshotKeys(op'.payload) :
                         state'[k] = state[k]
             ELSE state' = state]_vars

\* a snapshot with the sub-state alone, dispatched after the state had moved
\* away from the initial one: count keeps the value of an earlier snapshot
C18_Witness ==
    /\ shouldUseHydrate
    /\ op.kind = "hydrate" /\ op.outcome = "hydrated"
    /\ SnapshotKeys(op.payload) = {"users/users"}
    /\ state["users/users"] = HydratedSub
    /\ state["users/count"] = Num(1)

\* the paginated sub-states of a state
SubStateKeys(st) == {k \in DOMAIN st : st[k].type = "envelope"}

\* C19: in a run of pending, fulfilled and rejected events alone, hasMore stays
\* true and page stays 0 in every paginated sub-state, no fulfilled event
\* passes the merge gate, and a results that is a non-empty array is not
\* changed by a fulfilled event.
C19_LifecycleKeepsPaging ==
    [][/\ \A k \in SubStateKeys(state') :
              state'[k].hasMore /\ state'[k].page = Num(0)
       /\ op'.outcome # "merged"
       /\ \A k \in SubStateKeys(state) :
              (/\ op'.kind = "fulfilled"
               /\ IsArray(state[k].results) /\ Len(state[k].results.items) > 0)
                  => state'[k].results = state[k].results]_vars

\* a fulfilled event with new records that meets a non-empty results
C19_Witness ==
    /\ op.kind = "fulfilled" /\ op.outcome = "gateFailed"
    /\ op.payload.results = Arr(<<2, 3>>)
    /\ Target.results = Arr(<<1>>)
    /\ Target.hasMore /\ Target.page = Num(0)

\* C20: a lifecycle event or a setPageData call addressed to the namespaced
\* key of one paginated sub-state leaves every other entry of the state, the
\* other sub-states and the primitive fields, as it was.
C20_OtherEntriesUnchanged ==
    [][(/\ op'.kind \in Lifecycle \cup {"setPageData"}
        /\ op'.hasOriginalArgs
        /\ op'.key.type = "string"
        /\ op'.key.str \in SubStateKeys(state))
          => /\ DOMAIN state' = DOMAIN state
             /\ \A k \in (DOMAIN state) \ {op'.key.str} : state'[k] = state[k]]_vars

\* an append to posts while users is loading and holds a record
C20_Witness ==
    /\ op.kind = "setPageData" /\ op.outcome = "appended"
    /\ op.key = Str("users/posts")
    /\ state["users/posts"].results = Arr(<<1, 1>>)
    /\ state["users/users"].results = Arr(<<1>>)
    /\ state["users/users"].isLoading
    /\ state["users/count"] = Num(0)

====
